---- MODULE Spec2Model ----
(***************************************************************************)
(* AIDGI.py: a Streamlit script.  Every interaction with a widget (one of  *)
(* the five weight sliders, or the industry selectbox) re-executes the     *)
(* whole script top to bottom with the widgets' current values: the frame  *)
(* df is rebuilt from data, the weights are normalised, every row is       *)
(* scored, the frame is sorted in place, the long-format projection and    *)
(* the detail view are derived from the sorted frame.                      *)
(*                                                                         *)
(* Numbers.  The script computes in binary floating point (IEEE doubles,   *)
(* 53-bit significands, round to nearest, ties to even).  The model keeps  *)
(* the format and the rounding of every operation and narrows the          *)
(* significand to Precision bits, so that every intermediate value fits    *)
(* the model checker's integers.  A float is [m, e], standing for m * 2^e, *)
(* with 2^(Precision-1) <= m < 2^Precision, or m = 0 for 0.0.  All floats  *)
(* of the script are non-negative.                                         *)
(***************************************************************************)
EXTENDS Integers, Sequences, FiniteSets, TLC

VARIABLES
    sliders,      \* the five slider widgets' positions, in steps of 0.01
    weights,      \* ai_weight .. growth_weight as the script leaves them
    df,           \* the module-level frame after the run
    melted,       \* df.melt(...) handed to the grouped bar chart
    industry,     \* the selectbox's value
    filtered_df,  \* df[df['Industry'] == industry]
    error,        \* the exception that ended the run, or "none"
    argsort       \* which argsort the installed numpy runs for 'quicksort'

vars == <<sliders, weights, df, melted, industry, filtered_df, error, argsort>>

----------------------------------------------------------------------------
(* Bounds of the exploration *)

\* the sliders are moved over 0.00 .. MaxSlider/100 and their default values
MaxSlider == 1

\* the raw weights are scaled by the constants 2 .. MaxScale
MaxScale == 3

\* bits of a float's significand
Precision == 12

----------------------------------------------------------------------------
(* Floating point: round to nearest, ties to even *)

FZero == [m |-> 0, e |-> 0]

RECURSIVE BitLen(_)
BitLen(k) == IF k = 0 THEN 0 ELSE 1 + BitLen(k \div 2)

\* the float nearest to k * 2^x, for an integer k > 0 of len bits
RoundBits(k, x, len) ==
    IF len <= Precision
    THEN [m |-> k * 2^(Precision - len), e |-> x - (Precision - len)]
    ELSE LET s    == len - Precision
             q    == k \div 2^s
             r    == k % 2^s
             half == 2^(s - 1)
             up   == r > half \/ (r = half /\ q % 2 = 1)
             m    == IF up THEN q + 1 ELSE q
         IN  IF m = 2^Precision
             THEN [m |-> 2^(Precision - 1), e |-> x + s + 1]
             ELSE [m |-> m, e |-> x + s]

\* the float nearest to k * 2^x, for an integer k >= 0
Round(k, x) == IF k = 0 THEN FZero ELSE RoundBits(k, x, BitLen(k))

\* an int64 cell, or an int literal, as a float
FromInt(k) == Round(k, 0)

\* a + b: the significands are aligned and the exact sum is rounded; an
\* addend below a quarter of the other's last place changes nothing
FAdd(a, b) ==
    IF a.m = 0 THEN b
    ELSE IF b.m = 0 THEN a
    ELSE LET hi  == IF a.e >= b.e THEN a ELSE b
             lo  == IF a.e >= b.e THEN b ELSE a
             sh  == hi.e - lo.e
             sum == hi.m * 2^sh + lo.m
         IN  IF sh > Precision + 1
             THEN hi
             ELSE RoundBits(sum, lo.e,
                            IF sum >= 2^(Precision + sh) THEN Precision + sh + 1
                            ELSE Precision + sh)

\* a * b: the exact product is rounded
FMul(a, b) ==
    LET prod == a.m * b.m
    IN  IF prod = 0
        THEN FZero
        ELSE RoundBits(prod, a.e + b.e,
                       IF prod >= 2^(2 * Precision - 1) THEN 2 * Precision
                       ELSE 2 * Precision - 1)

\* a / b for b # 0.0 (Python raises ZeroDivisionError for b = 0.0): the
\* quotient to Precision + 2 bits and a sticky bit for the remainder is rounded
FDiv(a, b) ==
    LET num == a.m * 2^(Precision + 2)
        q   == num \div b.m
        k   == 2 * q + (IF num % b.m = 0 THEN 0 ELSE 1)
    IN  IF a.m = 0
        THEN FZero
        ELSE RoundBits(k, a.e - b.e - (Precision + 3),
                       IF k >= 2^(Precision + 3) THEN Precision + 4
                       ELSE Precision + 3)

\* a < b
FLess(a, b) ==
    IF a.m = 0 THEN b.m # 0
    ELSE IF b.m = 0 THEN FALSE
    ELSE a.e < b.e \/ (a.e = b.e /\ a.m < b.m)

\* np.log on the market sizes of data: the value to 24 bits, rounded
NpLog(x) ==
    CASE x = 200 -> RoundBits(11111377, -21, 24)  \* 5.298317
      [] x = 180 -> RoundBits(10890420, -21, 24)  \* 5.192957
      [] x = 150 -> RoundBits(10508064, -21, 24)  \* 5.010635
      [] x = 170 -> RoundBits(10770550, -21, 24)  \* 5.135798
      [] x = 140 -> RoundBits(10363375, -21, 24)  \* 4.941642
      [] x = 120 -> RoundBits(10040098, -21, 24)  \* 4.787492
      [] x = 130 -> RoundBits(10207960, -21, 24)  \* 4.867534

\* np.exp on Growth_Potential / 100 for the values of data: the value to 24
\* bits, rounded.  The argument is one of 0.60 .. 0.90; g is its nearest
\* hundredth.
NpExp(x) ==
    LET g == (x.m * 100 + 2^(-x.e - 1)) \div 2^(-x.e)
    IN  CASE g = 90 -> RoundBits(10316323, -22, 24)  \* 2.459603
          [] g = 85 -> RoundBits(9813190, -22, 24)   \* 2.339647
          [] g = 80 -> RoundBits(9334595, -22, 24)   \* 2.225541
          [] g = 75 -> RoundBits(8879342, -22, 24)   \* 2.117000
          [] g = 70 -> RoundBits(8446291, -22, 24)   \* 2.013753
          [] g = 65 -> RoundBits(16068721, -23, 24)  \* 1.915541
          [] g = 60 -> RoundBits(15285040, -23, 24)  \* 1.822119

----------------------------------------------------------------------------
(* The static table and the widgets *)

Row(name, ai, eff, rev, market, growth) ==
    [Industry |-> name, AI_Adoption |-> ai, Efficiency_Improvement |-> eff,
     Revenue_Growth |-> rev, Market_Size |-> market, Growth_Potential |-> growth]

data ==
    << Row("Healthcare",     75, 30, 20, 200, 90),
       Row("Finance",        80, 35, 25, 180, 85),
       Row("Retail",         70, 25, 15, 150, 80),
       Row("Manufacturing",  65, 20, 10, 170, 75),
       Row("Transportation", 60, 15,  5, 140, 70),
       Row("Education",      55, 10,  5, 120, 65),
       Row("Entertainment",  50, 20, 10, 130, 60) >>

SliderNames == {"ai", "eff", "rev", "market", "growth"}

\* the sliders' default positions, in hundredths
DefaultAi == 35
DefaultEff == 25
DefaultRev == 20
DefaultMarket == 10
DefaultGrowth == 10

\* the sliders' step is 0.01: the position k stands for k / SliderSteps
SliderSteps == 100

DefaultSliders ==
    [ai |-> DefaultAi, eff |-> DefaultEff, rev |-> DefaultRev,
     market |-> DefaultMarket, growth |-> DefaultGrowth]

----------------------------------------------------------------------------
(* The script's steps *)

\* a slip: the frame the previous run left is kept (a frame cached across reruns)
DataFrameKept(prev) == IF prev = <<>> THEN data ELSE prev

\* df = pd.DataFrame(data): every run builds the frame anew from data,
\* whatever frame the previous run left
DataFrame(prev) == data

\* the float a slider returns for the position k: the double nearest to k/100
SliderValue(k) == FDiv(FromInt(k), FromInt(SliderSteps))

RawWeights(s) ==
    [ai |-> SliderValue(s.ai), eff |-> SliderValue(s.eff), rev |-> SliderValue(s.rev),
     market |-> SliderValue(s.market), growth |-> SliderValue(s.growth)]

\* a slip: the sum leaves out the last weight
TotalWeightShort(raw) == FAdd(FAdd(FAdd(raw.ai, raw.eff), raw.rev), raw.market)

\* total_weight = ai_weight + eff_weight + rev_weight + market_weight + growth_weight
TotalWeight(raw) ==
    FAdd(FAdd(FAdd(FAdd(raw.ai, raw.eff), raw.rev), raw.market), raw.growth)

\* the five in-place divisions; the first one raises when total_weight is 0.0
Normalize(raw) ==
    LET total_weight == TotalWeight(raw)
    IN  IF total_weight = FZero
        THEN [error |-> "ZeroDivisionError", w |-> raw]
        ELSE [error |-> "none",
              w |-> [ai     |-> FDiv(raw.ai, total_weight),
                     eff    |-> FDiv(raw.eff, total_weight),
                     rev    |-> FDiv(raw.rev, total_weight),
                     market |-> FDiv(raw.market, total_weight),
                     growth |-> FDiv(raw.growth, total_weight)]]

\* a slip: the market term without its logarithm
calculate_aidgi_linear(row, ai_weight, eff_weight, rev_weight, market_weight, growth_weight) ==
    FAdd(FAdd(FAdd(FAdd(
        FMul(ai_weight, FromInt(row.AI_Adoption)),
        FMul(eff_weight, FromInt(row.Efficiency_Improvement))),
        FMul(rev_weight, FromInt(row.Revenue_Growth))),
        FMul(market_weight, FromInt(row.Market_Size))),
        FMul(growth_weight, NpExp(FDiv(FromInt(row.Growth_Potential), FromInt(100)))))

calculate_aidgi(row, ai_weight, eff_weight, rev_weight, market_weight, growth_weight) ==
    FAdd(FAdd(FAdd(FAdd(
        FMul(ai_weight, FromInt(row.AI_Adoption)),
        FMul(eff_weight, FromInt(row.Efficiency_Improvement))),
        FMul(rev_weight, FromInt(row.Revenue_Growth))),
        FMul(market_weight, NpLog(row.Market_Size))),
        FMul(growth_weight, NpExp(FDiv(FromInt(row.Growth_Potential), FromInt(100)))))

\* df['AIDGI'] = df.apply(calculate_aidgi, axis=1, args=(...)): the column is
\* set, or replaced, on every row
RECURSIVE ApplyScores(_, _)
ApplyScores(frame, w) ==
    IF frame = <<>>
    THEN <<>>
    ELSE LET n   == Len(frame)
             row == frame[n]
         IN  Append(ApplyScores(SubSeq(frame, 1, n - 1), w),
                    [Industry |-> row.Industry, AI_Adoption |-> row.AI_Adoption,
                     Efficiency_Improvement |-> row.Efficiency_Improvement,
                     Revenue_Growth |-> row.Revenue_Growth,
                     Market_Size |-> row.Market_Size,
                     Growth_Potential |-> row.Growth_Potential,
                     AIDGI |-> calculate_aidgi(row, w.ai, w.eff, w.rev, w.market,
                                               w.growth)])

RECURSIVE Reverse(_)
Reverse(s) == IF s = <<>> THEN <<>> ELSE Append(Reverse(Tail(s)), Head(s))

\* One insertion of an ascending sort.  With the insertion sort numpy's
\* quicksort runs on short arrays, an element goes after the elements equal to
\* it; pandas documents kind='quicksort' as not stable, and a build whose
\* argsort is a vectorised sorting network may emit equal keys in another
\* order: the model lets such a build emit them in the opposite order.
RECURSIVE InsertAscending(_, _, _)
InsertAscending(sorted, x, kind) ==
    IF sorted = <<>>
    THEN <<x>>
    ELSE LET n    == Len(sorted)
             last == sorted[n]
         IN  IF \/ FLess(x.AIDGI, last.AIDGI)
                \/ (kind = "network" /\ x.AIDGI = last.AIDGI)
             THEN Append(InsertAscending(SubSeq(sorted, 1, n - 1), x, kind), last)
             ELSE Append(sorted, x)

RECURSIVE ArgsortAscending(_, _)
ArgsortAscending(frame, kind) ==
    IF frame = <<>>
    THEN <<>>
    ELSE LET n == Len(frame)
         IN  InsertAscending(ArgsortAscending(SubSeq(frame, 1, n - 1), kind),
                             frame[n], kind)

\* a slip: ascending=False forgotten
SortValuesAscending(frame, kind) == ArgsortAscending(frame, kind)

\* a slip: rows of equal score are taken for duplicates and dropped
SortValuesDropEqual(frame, kind) ==
    LET sorted == Reverse(ArgsortAscending(Reverse(frame), kind))
    IN  SelectSeq(sorted, LAMBDA r :
            \A i \in DOMAIN sorted :
                sorted[i].AIDGI = r.AIDGI => sorted[i].Industry = r.Industry)

\* df.sort_values(by='AIDGI', ascending=False, inplace=True): pandas reverses
\* the column, argsorts it ascending with the default kind, and reverses the
\* indexer
SortValues(frame, kind) == Reverse(ArgsortAscending(Reverse(frame), kind))

MetricColumns ==
    << "AI_Adoption", "Efficiency_Improvement", "Revenue_Growth", "Market_Size",
       "Growth_Potential" >>

\* a slip: value_vars left out, so that the score column is melted too
MeltAllColumns(frame, value_vars) ==
    LET cols == value_vars \o <<"AIDGI">>
    IN  [k \in 1 .. (Len(cols) * Len(frame)) |->
            LET v == ((k - 1) \div Len(frame)) + 1
                i == ((k - 1) % Len(frame)) + 1
            IN  [Industry |-> frame[i].Industry, variable |-> cols[v],
                 value |-> frame[i][cols[v]]]]

\* df.melt(id_vars=['Industry'], value_vars=[...]): one block per value
\* column, each block in the frame's row order
Melt(frame, value_vars) ==
    [k \in 1 .. (Len(value_vars) * Len(frame)) |->
        LET v == ((k - 1) \div Len(frame)) + 1
            i == ((k - 1) % Len(frame)) + 1
        IN  [Industry |-> frame[i].Industry, variable |-> value_vars[v],
             value |-> frame[i][value_vars[v]]]]

\* df[df['Industry'] == industry]
Filter(frame, name) == SelectSeq(frame, LAMBDA r : r.Industry = name)

\* the column df['Industry'] as the selectbox's options
Industries(frame) == {frame[i].Industry : i \in DOMAIN frame}

NoSelection == "<none>"

\* st.selectbox('', df['Industry']): the option chosen in the browser when it
\* is among the options, else the first option
Selectbox(frame, choice) ==
    IF choice \in Industries(frame) THEN choice ELSE frame[1].Industry

\* The whole script for the slider positions s, run in a session whose
\* previous run left the frame prev.
Script(prev, s, choice, kind) ==
    LET norm   == Normalize(RawWeights(s))
        sorted == SortValues(ApplyScores(DataFrame(prev), norm.w), kind)
        picked == Selectbox(sorted, choice)
    IN  IF norm.error # "none"
        THEN [weights |-> norm.w, df |-> DataFrame(prev), melted |-> <<>>,
              industry |-> NoSelection, filtered_df |-> <<>>, error |-> norm.error]
        ELSE [weights |-> norm.w, df |-> sorted, melted |-> Melt(sorted, MetricColumns),
              industry |-> picked, filtered_df |-> Filter(sorted, picked),
              error |-> "none"]

Install(run) ==
    /\ weights' = run.weights
    /\ df' = run.df
    /\ melted' = run.melted
    /\ industry' = run.industry
    /\ filtered_df' = run.filtered_df
    /\ error' = run.error

----------------------------------------------------------------------------
(* The session *)

ArgsortKinds == {"insertion", "network"}

SliderRange(name) == (0 .. MaxSlider) \cup {DefaultSliders[name]}

\* the first run: every widget at its default, the selectbox at its first option
Init ==
    /\ argsort \in ArgsortKinds
    /\ sliders = DefaultSliders
    /\ \E run \in {Script(<<>>, DefaultSliders, NoSelection, argsort)} :
           /\ weights = run.weights
           /\ df = run.df
           /\ melted = run.melted
           /\ industry = run.industry
           /\ filtered_df = run.filtered_df
           /\ error = run.error

\* The user moves one slider; the script reruns.  The selectbox keeps the
\* selection or falls back to its first option (its options are a new list).
MoveSlider ==
    \E name \in SliderNames :
        \E v \in SliderRange(name) \ {sliders[name]} :
            \E choice \in {industry, NoSelection} :
                /\ sliders' = [sliders EXCEPT ![name] = v]
                /\ \E run \in {Script(df, sliders', choice, argsort)} : Install(run)
                /\ UNCHANGED argsort

\* The user picks an industry; the script reruns with the same sliders.
SelectIndustry ==
    /\ error = "none"
    /\ \E name \in Industries(df) \ {industry} :
        /\ \E run \in {Script(df, sliders, name, argsort)} : Install(run)
        /\ UNCHANGED <<sliders, argsort>>

Next == MoveSlider \/ SelectIndustry

Spec == Init /\ [][Next]_vars

\* The detail view's filter applied to the name a caller asks for
DetailNames == Industries(data) \cup {"Nonexistent"}

Detail ==
    /\ error = "none"
    /\ \E name \in DetailNames \ {industry} :
        /\ industry' = name
        /\ filtered_df' = Filter(df, name)
        /\ UNCHANGED <<sliders, weights, df, melted, error, argsort>>

NextDetail == MoveSlider \/ SelectIndustry \/ Detail

SpecDetail == Init /\ [][NextDetail]_vars

----------------------------------------------------------------------------
(* Exact arithmetic the properties are stated in *)

Abs(x) == IF x < 0 THEN -x ELSE x

\* the sum of the five slider positions, in hundredths
PositionSum(s) == s.ai + s.eff + s.rev + s.market + s.growth

Ran == error = "none"

\* the significand of the float w at the binary place 2^x, for x <= w.e
Aligned(w, x) == IF w.m = 0 THEN 0 ELSE w.m * 2^(w.e - x)

\* the least exponent among the non-zero weights
MinExponent(w) ==
    LET es == {w[name].e : name \in {n \in SliderNames : w[n].m # 0}}
    IN  CHOOSE x \in es : \A y \in es : x <= y

\* the float w is k / K to within eight units in its last place
NearQuotient(w, k, K) ==
    IF k = 0
    THEN w = FZero
    ELSE /\ w.m # 0
         /\ w.e < 0
         /\ Abs(w.m * K - k * 2^(-w.e)) <= 8 * K

\* 0.0 <= w <= 1.0
InUnitInterval(w) ==
    \/ w.m = 0
    \/ w.e < -(Precision - 1)
    \/ (w.e = -(Precision - 1) /\ w.m = 2^(Precision - 1))

\* ln(x) * 2^16 and exp(g / 100) * 2^16, to the nearest integer
LogQ16(x) ==
    CASE x = 200 -> 347231 [] x = 180 -> 340326 [] x = 150 -> 328377
      [] x = 170 -> 336580 [] x = 140 -> 323855 [] x = 120 -> 313753
      [] x = 130 -> 318999

ExpQ16(g) ==
    CASE g = 90 -> 161193 [] g = 85 -> 153331 [] g = 80 -> 145853
      [] g = 75 -> 138740 [] g = 70 -> 131973 [] g = 65 -> 125537
      [] g = 60 -> 119414

\* (sum of the five slider positions) * (the composite formula) * 2^16 for a
\* row, from the slider positions s: the formula with the weight k / K for
\* the position k, cleared of the denominator K
FormulaQ16(row, s) ==
    (s.ai * row.AI_Adoption + s.eff * row.Efficiency_Improvement
        + s.rev * row.Revenue_Growth) * 65536
    + s.market * LogQ16(row.Market_Size)
    + s.growth * ExpQ16(row.Growth_Potential)

\* K * f * 2^16 for the float f
ScoreQ16(f, K) ==
    IF f.e + 16 >= 0 THEN f.m * 2^(f.e + 16) * K ELSE (f.m * K) \div 2^(-(f.e + 16))

\* the position of an industry in data
Position(name) == CHOOSE i \in DOMAIN data : data[i].Industry = name

AllZero(s) == \A name \in SliderNames : s[name] = 0

Scaled(s, c) == [name \in SliderNames |-> c * s[name]]

----------------------------------------------------------------------------
(* Properties *)

\* C1: after a run with a positive weight sum, every normalized weight is its
\* slider value divided by the sum of the five slider values (to within the
\* rounding of the divisions and of the sum), lies in [0, 1], the five sum to
\* 1 to within 8 * 2^-Precision, and the ratio of any two of them is the
\* ratio of their slider values to within 16 * 2^-Precision.
NormalizedWeights ==
    Ran =>
        LET K    == PositionSum(sliders)
            emin == MinExponent(weights)
            sum  == Aligned(weights.ai, emin) + Aligned(weights.eff, emin)
                    + Aligned(weights.rev, emin) + Aligned(weights.market, emin)
                    + Aligned(weights.growth, emin)
        IN  /\ \A name \in SliderNames :
                /\ NearQuotient(weights[name], sliders[name], K)
                /\ InUnitInterval(weights[name])
            /\ emin < 0
            /\ Abs(sum - 2^(-emin)) <= 2^(-emin) \div 2^(Precision - 3)
            /\ \A i, j \in SliderNames :
                (sliders[i] > 0 /\ sliders[j] > 0) =>
                    LET a == Aligned(weights[i], emin) * sliders[j]
                        b == Aligned(weights[j], emin) * sliders[i]
                    IN  Abs(a - b) <= b \div 2^(Precision - 4) + 1

\* a run normalized slider values whose sum is not 1
NormalizedWeightsWitness ==
    /\ Ran
    /\ sliders.ai = 1 /\ sliders.eff = 1 /\ sliders.rev = 0
    /\ sliders.market = 0 /\ sliders.growth = DefaultGrowth
    /\ weights.growth # SliderValue(sliders.growth)

\* C2: after any sequence of weight changes, the score stored on every row is
\* the composite formula of that row's raw metrics under the current slider
\* values normalized (to within 16 * 2^-Precision of its value); under the
\* default weights the formula gives 38.53 for Healthcare, to two decimals.
ScoresFromCurrentWeights ==
    Ran =>
        LET K == PositionSum(sliders)
        IN  /\ \A i \in DOMAIN df :
                LET exact == FormulaQ16(data[Position(df[i].Industry)], sliders)
                IN  Abs(ScoreQ16(df[i].AIDGI, K) - exact)
                        <= exact \div 2^(Precision - 4) + K
            /\ sliders = DefaultSliders =>
                   Abs(FormulaQ16(data[Position("Healthcare")], sliders) - 252510208)
                       <= 32768

\* the weights were changed so that another industry leads the table
ScoresFromCurrentWeightsWitness ==
    /\ Ran
    /\ sliders # DefaultSliders
    /\ sliders.market > 0
    /\ df[1].Industry = "Healthcare"

\* C3: after a run with a positive weight sum, no row of the table has a
\* lower score than the row after it.
SortedDescending ==
    Ran => \A i \in 1 .. (Len(df) - 1) : ~FLess(df[i].AIDGI, df[i + 1].AIDGI)

\* a changed weight vector under which the scores strictly descend
SortedDescendingWitness ==
    /\ Ran
    /\ sliders # DefaultSliders
    /\ \A i \in 1 .. (Len(df) - 1) : FLess(df[i + 1].AIDGI, df[i].AIDGI)
    /\ df[Len(df)].Industry # "Entertainment"

\* C4: with all five sliders at zero the run fails with a
\* DegenerateWeightsError, not with a division by zero, and leaves no table.
DegenerateWeightsRejected ==
    AllZero(sliders) =>
        /\ error = "DegenerateWeightsError"
        /\ melted = <<>>
        /\ filtered_df = <<>>

TiesInDataOrder ==
    Ran =>
        \A i, j \in DOMAIN df :
            (i < j /\ df[i].AIDGI = df[j].AIDGI) =>
                Position(df[i].Industry) < Position(df[j].Industry)

\* C7: the slider values multiplied by a constant (and still on the sliders'
\* scale) give the same normalized weights and the same table.
ScaleInvariant ==
    Ran =>
        \A c \in 2 .. MaxScale :
            (\A name \in SliderNames : c * sliders[name] <= SliderSteps) =>
                LET run == Script(df, Scaled(sliders, c), industry, argsort)
                IN  run.weights = weights /\ run.df = df

\* C8: running the script again with the same slider values, from the state
\* any sequence of weight changes has led to, gives the same weights and the
\* same table, which are those a first run with these slider values gives.
Idempotent ==
    Ran =>
        LET again == Script(df, sliders, industry, argsort)
            first == Script(<<>>, sliders, industry, argsort)
        IN  /\ again.weights = weights
            /\ again.df = df
            /\ again.melted = melted
            /\ first.df = df

\* a table with two rows of equal score, after a weight change
IdempotentWitness ==
    /\ Ran
    /\ sliders # DefaultSliders
    /\ \E i \in 1 .. (Len(df) - 1) : df[i].AIDGI = df[i + 1].AIDGI

\* C9 as claimed: the long-format projection is the same sequence of triples
\* under every weight vector: it is the one the default weights give.
MeltSameUnderAllWeights ==
    Ran => melted = Script(<<>>, DefaultSliders, NoSelection, argsort).melted

\* C9 amended: under every weight vector the projection holds exactly one
\* triple per row of data and metric column, carrying the raw value of data;
\* its order is one block per metric column, each in the table's row order.
MeltRawValues ==
    Ran =>
        /\ Len(melted) = Len(data) * Len(MetricColumns)
        /\ {melted[k] : k \in DOMAIN melted}
               = {[Industry |-> data[i].Industry, variable |-> MetricColumns[v],
                   value |-> data[i][MetricColumns[v]]] :
                      i \in DOMAIN data, v \in DOMAIN MetricColumns}
        /\ \A k \in DOMAIN melted :
               /\ melted[k].Industry = df[((k - 1) % Len(df)) + 1].Industry
               /\ melted[k].variable = MetricColumns[((k - 1) \div Len(df)) + 1]

\* a projection whose rows stand in another order than under the default weights
MeltRawValuesWitness ==
    /\ Ran
    /\ melted # <<>>
    /\ melted[1].Industry = "Healthcare"

\* C10: after a run with a positive weight sum the table has one row for each
\* industry of data, with that industry's five raw metrics, and no other row;
\* the detail view of the selected industry is exactly that one row.
PermutationOfData ==
    Ran =>
        /\ Len(df) = Len(data)
        /\ \A i \in DOMAIN data :
               \E j \in DOMAIN df :
                   /\ \A col \in DOMAIN data[i] : df[j][col] = data[i][col]
                   /\ \A k \in DOMAIN df :
                          df[k].Industry = data[i].Industry => k = j
        /\ industry \in Industries(data)
        /\ Len(filtered_df) = 1
        /\ filtered_df[1].Industry = industry
        /\ \E j \in DOMAIN df : df[j] = filtered_df[1]

\* a table in another order than data, with an industry picked that is not first
PermutationOfDataWitness ==
    /\ Ran
    /\ sliders # DefaultSliders
    /\ df[1].Industry # data[1].Industry
    /\ industry = "Entertainment"
    /\ filtered_df # <<>>
    /\ filtered_df[1] # df[1]

====
